---- MODULE Spec2Model ----
(***************************************************************************)
(* Model of the Tauri command surface of LoRA-Craft                        *)
(* (src-tauri/src/lib.rs): get_app_paths, minimize_window,                 *)
(* maximize_window, close_window and is_maximized.                         *)
(*                                                                         *)
(* The commands hold no state of their own.  The state they act on lives   *)
(* in the host runtime: the window (maximized / minimized / closed) and    *)
(* the path resolver behind the application handle.  The host is modelled  *)
(* as an environment that may fail any call.  Every command invocation is  *)
(* dispatched by the host on its own; the invocations of Procs run         *)
(* interleaved at the granularity of one host call.                        *)
(***************************************************************************)
EXTENDS Naturals, Sequences, FiniteSets

VARIABLES
  win,    \* the host's window: [maximized, minimized, closed]
  app,    \* the host's path resolver: [data, config], each a Result
  pend,   \* per dispatcher slot: the invocation in progress, if any
  last,   \* the invocation that completed most recently
  prev,   \* the invocation that completed before last
  ext     \* whether the window was changed externally since last completed

vars == <<win, app, pend, last, prev, ext>>

\* Number of invocations the host dispatches concurrently.
NumProcs == 2
\* Longest path, in bytes, the host resolves a directory to.
MaxPathLen == 2

Procs == 1..NumProcs

(***************************************************************************)
(* Result<T, E>                                                            *)
(***************************************************************************)
Ok(v) == [ok |-> TRUE, val |-> v]
Err(e) == [ok |-> FALSE, err |-> e]

\* tauri::Error values a host call can fail with.
HostErrors == {"UnknownPath", "Io"}

\* e.to_string(): the Display text of a host error.
to_string(e) == IF e = "UnknownPath" THEN "unknown path" ELSE "io error"

(***************************************************************************)
(* Paths.  A PathBuf is a sequence of bytes (Unix); the model tells a      *)
(* byte that is valid UTF-8 on its own ("u", "/") from one that is part of *)
(* no valid sequence ("xFF").  A String is a sequence of characters.       *)
(***************************************************************************)
PathBytes == {"/", "u", "xFF"}

ValidByte(b) == b # "xFF"

RECURSIVE SeqsUpTo(_, _)
SeqsUpTo(S, n) ==
  IF n = 0 THEN {<<>>}
  ELSE LET shorter == SeqsUpTo(S, n - 1)
       IN shorter \cup {Append(x, b) : x \in shorter, b \in S}

\* The directories the host resolves to: the platform's base directory
\* joined with the bundle identifier, never the empty path.
Paths == SeqsUpTo(PathBytes, MaxPathLen) \ {<<>>}

\* A conversion that drops the bytes that are not valid UTF-8.
to_string_strip(path) == SelectSeq(path, ValidByte)

\* Path::to_string_lossy: every byte that is not valid UTF-8 becomes U+FFFD.
to_string_lossy(path) ==
  [i \in 1..Len(path) |-> IF ValidByte(path[i]) THEN path[i] ELSE "FFFD"]

\* What the host can answer to app.path().app_data_dir() / app_config_dir().
DirResults == {Ok(d) : d \in Paths} \cup {Err(e) : e \in HostErrors}

AppHandles == [data : DirResults, config : DirResults]

(***************************************************************************)
(* Values a command hands back to the frontend.                            *)
(***************************************************************************)
NotCalled == [tag |-> "none"]
Pending == [tag |-> "pending"]
ReturnUnit == [tag |-> "unit"]
ReturnBool(b) == [tag |-> "bool", val |-> b]
ReturnOk(v) == [tag |-> "Ok", val |-> v]
ReturnErr(s) == [tag |-> "Err", val |-> s]

(***************************************************************************)
(* The host window.  A call the host fails leaves the window as it was; a  *)
(* call it carries out has the effect of HostEffect.  The host may fail    *)
(* any call in any window state.                                           *)
(***************************************************************************)
WinStates == [maximized : BOOLEAN, minimized : BOOLEAN, closed : BOOLEAN]

\* The window after the host has carried out call c on window w.
HostEffect(w, c) ==
  CASE c = "minimize" -> [w EXCEPT !.minimized = TRUE]
    [] c = "unminimize" -> [w EXCEPT !.minimized = FALSE]
    [] c = "maximize" -> [w EXCEPT !.maximized = TRUE]
    [] c = "unmaximize" -> [w EXCEPT !.maximized = FALSE]
    [] c = "close" -> [w EXCEPT !.closed = TRUE]
    [] OTHER -> w

\* What the host can answer to a state-changing window call.
ActionResults == {Ok("unit"), Err("Io")}

\* What the host can answer to window.is_maximized() on window w.
QueryResults(w) == {Ok(w.maximized), Err("Io")}

\* One host call as the invocation saw it: the call and its Result.
Req(c, r) == [call |-> c, res |-> r]

(***************************************************************************)
(* An invocation: the command, the host calls it has issued, what it       *)
(* returned, and three observations of the window kept for the properties  *)
(* of maximize_window: the maximized state when its first host call was    *)
(* made (m0), when its last host call was made (m1) and when that call had *)
(* returned (m2).  The other commands keep no observation.                 *)
(***************************************************************************)
Invocation(cmd, reqs, ret, m0, m1, m2) ==
  [cmd |-> cmd, reqs |-> reqs, ret |-> ret, m0 |-> m0, m1 |-> m1, m2 |-> m2]

NoInvocation == Invocation("none", <<>>, NotCalled, FALSE, FALSE, FALSE)

Idle(p) == pend[p] = NoInvocation

Observed(cmd, m) == cmd = "maximize_window" /\ m

\* The invocation i has returned to the frontend.
Complete(i) ==
  /\ last' = i
  /\ prev' = last
  /\ ext' = FALSE

(***************************************************************************)
(* The code's own logic, as pure operators.                                *)
(***************************************************************************)

\* unwrap_or(true): a failed query read as "maximized".
unwrap_or_true(r, default) == IF r.ok THEN r.val ELSE TRUE

\* Result::unwrap_or
unwrap_or(r, default) == IF r.ok THEN r.val ELSE default

\* The Result handed on to the caller instead of dropped.
Propagate(r) == IF r.ok THEN ReturnUnit ELSE ReturnErr(to_string(r.err))

\* `let _ = <call>;` in a function returning (): the Result is dropped.
Discard(r) == ReturnUnit

\* The branch of maximize_window with its arms exchanged.
ToggleRequestInverted(maximized) ==
  IF maximized THEN "maximize" ELSE "unmaximize"

\* The branch of maximize_window: the request for a queried state.
ToggleRequest(maximized) == IF maximized THEN "unmaximize" ELSE "maximize"

(***************************************************************************)
(* An invocation of command cmd, whose earlier host calls are `earlier`    *)
(* and which first saw the window with maximized state m0, issues the      *)
(* request c to the host, drops its Result and returns.                    *)
(***************************************************************************)
HostRequest(cmd, c, earlier, m0) ==
  \E r \in ActionResults :
    LET w2 == IF r.ok THEN HostEffect(win, c) ELSE win
    IN /\ win' = w2
       /\ Complete(Invocation(cmd, Append(earlier, Req(c, r)), Discard(r),
                              m0, Observed(cmd, win.maximized),
                              Observed(cmd, w2.maximized)))

\* A minimize_window that restores a window that is already minimized.
minimize_window_toggle(p) ==
  /\ Idle(p)
  /\ HostRequest("minimize_window",
                 IF win.minimized THEN "unminimize" ELSE "minimize", <<>>,
                 FALSE)
  /\ UNCHANGED <<app, pend>>

minimize_window(p) ==
  /\ Idle(p)
  /\ HostRequest("minimize_window", "minimize", <<>>, FALSE)
  /\ UNCHANGED <<app, pend>>

\* A close_window that issues no request for a window already closing.
close_window_unless_closed(p) ==
  /\ Idle(p)
  /\ IF win.closed
       THEN /\ Complete(Invocation("close_window", <<>>, ReturnUnit,
                                   FALSE, FALSE, FALSE))
            /\ UNCHANGED win
       ELSE HostRequest("close_window", "close", <<>>, FALSE)
  /\ UNCHANGED <<app, pend>>

close_window(p) ==
  /\ Idle(p)
  /\ HostRequest("close_window", "close", <<>>, FALSE)
  /\ UNCHANGED <<app, pend>>

\* A maximize_window that returns at once when its query fails
\* (window.is_maximized()? in place of .unwrap_or(false)).
maximize_window_query_abort(p) ==
  /\ Idle(p)
  /\ \E r \in QueryResults(win) :
       IF r.ok
         THEN /\ pend' = [pend EXCEPT ![p] =
                   Invocation("maximize_window", <<Req("is_maximized", r)>>,
                              Pending, win.maximized, win.maximized,
                              win.maximized)]
              /\ UNCHANGED <<last, prev, ext>>
         ELSE /\ Complete(Invocation("maximize_window",
                                     <<Req("is_maximized", r)>>, ReturnUnit,
                                     win.maximized, win.maximized,
                                     win.maximized))
              /\ UNCHANGED pend
  /\ UNCHANGED <<win, app>>

\* maximize_window, first host call: window.is_maximized()
maximize_window_query(p) ==
  /\ Idle(p)
  /\ \E r \in QueryResults(win) :
       pend' = [pend EXCEPT ![p] =
                  Invocation("maximize_window", <<Req("is_maximized", r)>>,
                             Pending, win.maximized, win.maximized,
                             win.maximized)]
  /\ UNCHANGED <<win, app, last, prev, ext>>

\* A maximize_window that decides its branch on the window's state at the
\* time it acts, not on the state it queried.
maximize_window_act_recheck(p) ==
  /\ pend[p].cmd = "maximize_window"
  /\ HostRequest("maximize_window", ToggleRequest(win.maximized),
                 pend[p].reqs, pend[p].m0)
  /\ pend' = [pend EXCEPT ![p] = NoInvocation]
  /\ UNCHANGED app

\* maximize_window, second host call: .unwrap_or(false) decides the branch.
maximize_window_act(p) ==
  /\ pend[p].cmd = "maximize_window"
  /\ HostRequest("maximize_window",
                 ToggleRequest(unwrap_or(pend[p].reqs[1].res, FALSE)),
                 pend[p].reqs, pend[p].m0)
  /\ pend' = [pend EXCEPT ![p] = NoInvocation]
  /\ UNCHANGED app

is_maximized(p) ==
  /\ Idle(p)
  /\ \E r \in QueryResults(win) :
       Complete(Invocation("is_maximized", <<Req("is_maximized", r)>>,
                           ReturnBool(unwrap_or(r, FALSE)),
                           FALSE, FALSE, FALSE))
  /\ UNCHANGED <<win, app, pend>>

\* .map_err(|e| e.to_string())
map_err_to_string(r) == IF r.ok THEN r ELSE Err(to_string(r.err))

\* A get_app_paths that answers with the app-data directory alone when
\* the app-config directory does not resolve.
get_app_paths_partial(h) ==
  LET app_data_dir == map_err_to_string(h.data)
      app_config_dir == map_err_to_string(h.config)
      first == <<Req("app_data_dir", h.data)>>
      both == Append(first, Req("app_config_dir", h.config))
  IN IF ~app_data_dir.ok
       THEN [reqs |-> first, ret |-> ReturnErr(app_data_dir.err)]
     ELSE IF ~app_config_dir.ok
       THEN [reqs |-> both,
             ret |-> ReturnOk([appData |->
                                 to_string_lossy(app_data_dir.val)])]
     ELSE [reqs |-> both,
           ret |-> ReturnOk([appData |-> to_string_lossy(app_data_dir.val),
                             appConfig |->
                               to_string_lossy(app_config_dir.val)])]

\* A get_app_paths with the two fields exchanged.
get_app_paths_swapped(h) ==
  LET app_data_dir == map_err_to_string(h.data)
      app_config_dir == map_err_to_string(h.config)
      first == <<Req("app_data_dir", h.data)>>
      both == Append(first, Req("app_config_dir", h.config))
  IN IF ~app_data_dir.ok
       THEN [reqs |-> first, ret |-> ReturnErr(app_data_dir.err)]
     ELSE IF ~app_config_dir.ok
       THEN [reqs |-> both, ret |-> ReturnErr(app_config_dir.err)]
     ELSE [reqs |-> both,
           ret |-> ReturnOk([appData |-> to_string_lossy(app_config_dir.val),
                             appConfig |->
                               to_string_lossy(app_data_dir.val)])]

\* The body of get_app_paths on the application handle h: the host calls
\* it issues and the value it returns.  `?` returns early on an Err.
get_app_paths_body(h) ==
  LET app_data_dir == map_err_to_string(h.data)
      app_config_dir == map_err_to_string(h.config)
      first == <<Req("app_data_dir", h.data)>>
      both == Append(first, Req("app_config_dir", h.config))
  IN IF ~app_data_dir.ok
       THEN [reqs |-> first, ret |-> ReturnErr(app_data_dir.err)]
     ELSE IF ~app_config_dir.ok
       THEN [reqs |-> both, ret |-> ReturnErr(app_config_dir.err)]
     ELSE [reqs |-> both,
           ret |-> ReturnOk([appData |-> to_string_lossy(app_data_dir.val),
                             appConfig |->
                               to_string_lossy(app_config_dir.val)])]

get_app_paths(p) ==
  /\ Idle(p)
  /\ LET out == get_app_paths_body(app)
     IN Complete(Invocation("get_app_paths", out.reqs, out.ret,
                            FALSE, FALSE, FALSE))
  /\ UNCHANGED <<win, app, pend>>

\* The user or the window manager changes the window behind the commands.
External ==
  /\ \E c \in {"maximize", "unmaximize", "unminimize"} :
       /\ HostEffect(win, c) # win
       /\ win' = HostEffect(win, c)
  /\ ext' = TRUE
  /\ UNCHANGED <<app, pend, last, prev>>

\* The resolver while the window commands run: both directories resolve.
DefaultApp == [data |-> Ok(<<"u">>), config |-> Ok(<<"u">>)]

Init ==
  /\ win \in {w \in WinStates : ~w.closed}
  /\ app = DefaultApp
  /\ pend = [p \in Procs |-> NoInvocation]
  /\ last = NoInvocation
  /\ prev = NoInvocation
  /\ ext = FALSE

Next ==
  \/ \E p \in Procs : get_app_paths(p)
  \/ \E p \in Procs : minimize_window(p)
  \/ \E p \in Procs : close_window(p)
  \/ \E p \in Procs : maximize_window_query(p)
  \/ \E p \in Procs : maximize_window_act(p)
  \/ \E p \in Procs : is_maximized(p)
  \/ External

Spec == Init /\ [][Next]_vars

(***************************************************************************)
(* get_app_paths on every application handle: the resolver may answer each *)
(* of the two queries with any path or any error.                          *)
(***************************************************************************)
InitPaths ==
  /\ win = [maximized |-> FALSE, minimized |-> FALSE, closed |-> FALSE]
  /\ app \in AppHandles
  /\ pend = [p \in Procs |-> NoInvocation]
  /\ last = NoInvocation
  /\ prev = NoInvocation
  /\ ext = FALSE

NextPaths == \E p \in Procs : get_app_paths(p)

SpecPaths == InitPaths /\ [][NextPaths]_vars

(***************************************************************************)
(* Properties.  Every invocation that completes becomes `last`, so an      *)
(* invariant about `last` is a statement about every invocation.           *)
(***************************************************************************)

\* The requests that change the window.
WindowRequests == {"minimize", "maximize", "unmaximize", "close"}

\* How many of the host calls of invocation i are one of the calls in S.
Issued(i, S) == Cardinality({k \in 1..Len(i.reqs) : i.reqs[k].call \in S})

ErrorStrings == {to_string(e) : e \in HostErrors}

\* C1: get_app_paths returns an error string exactly when the host fails
\* to resolve the app-data or the app-config directory, and otherwise the
\* mapping with both fields and no other; it returns one of the two in
\* every case and issues each directory query at most once.
C1_ErrorIffADirectoryFails ==
  last.cmd = "get_app_paths" =>
    /\ last.ret.tag \in {"Ok", "Err"}
    /\ (last.ret.tag = "Err") <=> (~app.data.ok \/ ~app.config.ok)
    /\ (last.ret.tag = "Err") => (last.ret.val \in ErrorStrings)
    /\ (last.ret.tag = "Ok") =>
         (DOMAIN last.ret.val = {"appData", "appConfig"})
    /\ Issued(last, {"app_data_dir"}) <= 1
    /\ Issued(last, {"app_config_dir"}) <= 1
    /\ Issued(last, {"app_data_dir", "app_config_dir"}) = Len(last.reqs)

\* The app-data directory resolves, the app-config directory does not, and
\* get_app_paths has returned the error after asking for each once.
C1_Witness ==
  /\ last.cmd = "get_app_paths"
  /\ app.data.ok
  /\ ~app.config.ok
  /\ last.ret = ReturnErr(to_string(app.config.err))
  /\ Len(last.reqs) = 2

\* s is the path d with every byte that is not valid UTF-8 replaced by
\* U+FFFD, and every other byte kept.
LossyImage(s, d) ==
  /\ Len(s) = Len(d)
  /\ \A k \in 1..Len(d) : s[k] = IF d[k] = "xFF" THEN "FFFD" ELSE d[k]

ValidUnicode(d) == \A k \in 1..Len(d) : d[k] # "xFF"

\* C2 as stated: on success appData equals the resolved app-data directory
\* and appConfig the resolved app-config directory.
C2_FieldsEqualDirectories ==
  (last.cmd = "get_app_paths" /\ last.ret.tag = "Ok") =>
    /\ last.ret.val.appData = app.data.val
    /\ last.ret.val.appConfig = app.config.val

\* C2 (amended): on success appData is the lossy conversion of the resolved
\* app-data directory and appConfig that of the resolved app-config
\* directory: equal to the directory when it is valid Unicode, and with
\* U+FFFD in place of every invalid byte otherwise.  The fields are not
\* exchanged.
C2_FieldsAreLossyDirectories ==
  (last.cmd = "get_app_paths" /\ last.ret.tag = "Ok") =>
    /\ LossyImage(last.ret.val.appData, app.data.val)
    /\ LossyImage(last.ret.val.appConfig, app.config.val)
    /\ ValidUnicode(app.data.val) => (last.ret.val.appData = app.data.val)
    /\ ValidUnicode(app.config.val) =>
         (last.ret.val.appConfig = app.config.val)

\* Two different directories resolve, one valid Unicode and one not, and
\* get_app_paths has returned the mapping.
C2_Witness ==
  /\ last.cmd = "get_app_paths"
  /\ last.ret.tag = "Ok"
  /\ app.data.val # app.config.val
  /\ ~ValidUnicode(app.data.val)
  /\ ValidUnicode(app.config.val)
  /\ last.ret.val.appData # app.data.val
  /\ last.ret.val.appConfig = app.config.val

C4_IsMaximizedReturnsBoolean ==
  last.cmd = "is_maximized" =>
    /\ last.ret.tag = "bool"
    /\ last.ret.val \in BOOLEAN
    /\ Len(last.reqs) = 1
    /\ last.reqs[1].call = "is_maximized"
    /\ last.reqs[1].res.ok => (last.ret.val = last.reqs[1].res.val)
    /\ ~last.reqs[1].res.ok => (last.ret.val = FALSE)

\* The query has failed on a maximized window and is_maximized has
\* returned false.
C4_Witness ==
  /\ last.cmd = "is_maximized"
  /\ ~last.reqs[1].res.ok
  /\ win.maximized
  /\ ~ext
  /\ last.ret = ReturnBool(FALSE)

\* C5: maximize_window issues exactly one of maximize and unmaximize:
\* unmaximize and no maximize when its query returned true, maximize and
\* no unmaximize when its query returned false.
C5_ToggleCorrectness ==
  last.cmd = "maximize_window" =>
    /\ Len(last.reqs) = 2
    /\ last.reqs[1].call = "is_maximized"
    /\ Issued(last, {"maximize", "unmaximize"}) = 1
    /\ (last.reqs[1].res.ok /\ last.reqs[1].res.val) =>
         /\ Issued(last, {"unmaximize"}) = 1
         /\ Issued(last, {"maximize"}) = 0
    /\ (last.reqs[1].res.ok /\ ~last.reqs[1].res.val) =>
         /\ Issued(last, {"maximize"}) = 1
         /\ Issued(last, {"unmaximize"}) = 0

\* The window was maximized, the query returned true, and maximize_window
\* has issued unmaximize, which the host carried out.
C5_Witness ==
  /\ last.cmd = "maximize_window"
  /\ last.m0
  /\ last.reqs[1].res = Ok(TRUE)
  /\ last.reqs[2] = Req("unmaximize", Ok("unit"))
  /\ ~last.m2

\* C6: when its query fails, maximize_window does not abort: it issues a
\* maximize request and no unmaximize request, whatever the window's
\* maximized state is.
C6_QueryFailureStillMaximizes ==
  (last.cmd = "maximize_window" /\ ~last.reqs[1].res.ok) =>
    /\ Len(last.reqs) = 2
    /\ last.reqs[2].call = "maximize"
    /\ Issued(last, {"unmaximize"}) = 0
    /\ last.ret = ReturnUnit

\* The query has failed on a window that was maximized then and when
\* maximize_window acted, and maximize has been issued.
C6_Witness ==
  /\ last.cmd = "maximize_window"
  /\ ~last.reqs[1].res.ok
  /\ last.m0
  /\ last.m1
  /\ last.reqs[2].call = "maximize"

\* C7: minimize_window, maximize_window and close_window return unit
\* whether the host carries out their request or fails it, and issue the
\* request once.
C7_FailuresDiscarded ==
  last.cmd \in {"minimize_window", "maximize_window", "close_window"} =>
    /\ last.ret = ReturnUnit
    /\ Issued(last, WindowRequests) = 1

\* The host has failed the requests of two different window commands in a
\* row, and both have returned unit.
C7_Witness ==
  /\ last.cmd \in {"minimize_window", "maximize_window", "close_window"}
  /\ prev.cmd \in {"minimize_window", "maximize_window", "close_window"}
  /\ last.cmd # prev.cmd
  /\ ~last.reqs[Len(last.reqs)].res.ok
  /\ ~prev.reqs[Len(prev.reqs)].res.ok
  /\ last.ret = ReturnUnit
  /\ prev.ret = ReturnUnit

\* C8: close_window issues one close request and no other host call, in
\* every window state.
C8_CloseIssuedOnce ==
  last.cmd = "close_window" =>
    /\ Len(last.reqs) = 1
    /\ last.reqs[1].call = "close"

\* close_window has run on a window that an earlier close_window had
\* closed and that is minimized and maximized.
C8_Witness ==
  /\ prev.cmd = "close_window"
  /\ prev.reqs[1].res.ok
  /\ last.cmd = "close_window"
  /\ ~ext
  /\ win.closed
  /\ win.minimized
  /\ win.maximized

\* A step in which a minimize_window invocation runs.
MinimizeWindowStep == \E p \in Procs : minimize_window(p)

AllOk(i) == \A k \in 1..Len(i.reqs) : i.reqs[k].res.ok

\* C10: the request of maximize_window is the one for the value its query
\* returned, whatever the window's state when the request is issued; and
\* two maximize_window invocations whose host calls all succeed, each
\* acting on the state it queried and the second querying the state the
\* first left, restore the maximized state the first one found.
C10_LastQueriedStateWins ==
  /\ last.cmd = "maximize_window" =>
       (last.reqs[2].call =
          IF last.reqs[1].res.ok /\ last.reqs[1].res.val
            THEN "unmaximize" ELSE "maximize")
  /\ (/\ prev.cmd = "maximize_window"
      /\ last.cmd = "maximize_window"
      /\ AllOk(prev)
      /\ AllOk(last)
      /\ prev.m1 = prev.m0
      /\ last.m0 = prev.m2
      /\ last.m1 = last.m0) =>
       /\ last.m2 = prev.m0
       /\ ~ext => (win.maximized = prev.m0)

\* The race: two maximize_window invocations queried the same state, the
\* first acted between the query and the request of the second, both
\* issued the same request, and the window is toggled once.
C10_Witness ==
  /\ prev.cmd = "maximize_window"
  /\ last.cmd = "maximize_window"
  /\ AllOk(prev)
  /\ AllOk(last)
  /\ last.reqs[1].res = prev.reqs[1].res
  /\ last.reqs[2].call = prev.reqs[2].call
  /\ prev.m1 = prev.m0
  /\ last.m0 = prev.m0
  /\ last.m1 = prev.m2
  /\ last.m1 # last.m0
  /\ last.m2 # prev.m0
  /\ ~ext
  /\ win.maximized # prev.m0

====
